---- MODULE Spec2Model ----
(***************************************************************************)
(* A model of rustigraph: the hypotrochoid generator of src/rosetta.rs     *)
(* (Hypotrochoid::generate_point, Hypotrochoid::compute_points) and the    *)
(* SVG renderer of src/renderer.rs (create_svg_rosettas, write_rosetta,    *)
(* write_path), with main of src/main.rs.                                  *)
(*                                                                         *)
(* f64 is modelled as a fixed-point number with Scale units per 1.0,       *)
(* rounded to nearest (ties to even) after every multiplication and        *)
(* division, together with the IEEE special values NaN, +inf and -inf.     *)
(* A sum beyond F64_MAX becomes an infinity.  Signed zeros are not         *)
(* distinguished.  sin and cos are computed by range reduction and         *)
(* Bhaskara's rational approximation on that fixed-point grid.             *)
(***************************************************************************)
EXTENDS Integers, Sequences, FiniteSets

(***************************************************************************)
(* Bounds of the model.                                                    *)
(***************************************************************************)
MaxRadius == 3
MaxSteps == 5
ConcSteps == 3
RenderSteps == 3
MaxLen == 3

(***************************************************************************)
(* f64                                                                     *)
(***************************************************************************)
Scale == 100
F64_MAX == 1000000
PI == 314
REVOLUTIONS == 16

Fin(n) == [k |-> "fin", v |-> n]
NaN == [k |-> "nan", v |-> 0]
Inf(s) == [k |-> "inf", v |-> s]

F64_MAX_V == Fin(F64_MAX)
F64_MIN_V == Fin(-F64_MAX)

is_nan(a) == a.k = "nan"
is_finite(a) == a.k = "fin"

Sign(n) == IF n < 0 THEN -1 ELSE 1
Abs(n) == IF n < 0 THEN -n ELSE n

\* a / b rounded to the nearest integer, ties to the even one (b # 0).
RoundDiv(a, b) ==
    LET n == IF b < 0 THEN -a ELSE a
        d == Abs(b)
        q == n \div d
        r == n % d
    IN  IF 2 * r < d THEN q
        ELSE IF 2 * r > d THEN q + 1
        ELSE IF q % 2 = 0 THEN q ELSE q + 1

\* A result of finite operands: an infinity when it overflows.
Norm(n) ==
    IF n > F64_MAX THEN Inf(1)
    ELSE IF n < -F64_MAX THEN Inf(-1)
    ELSE Fin(n)

\* `n as f64`
FromInt(n) == Fin(n * Scale)

fneg(a) == IF is_nan(a) THEN NaN ELSE [a EXCEPT !.v = -a.v]

fadd(a, b) ==
    IF is_nan(a) \/ is_nan(b) THEN NaN
    ELSE IF a.k = "inf" /\ b.k = "inf" THEN (IF a.v = b.v THEN a ELSE NaN)
    ELSE IF a.k = "inf" THEN a
    ELSE IF b.k = "inf" THEN b
    ELSE Norm(a.v + b.v)

fsub(a, b) == fadd(a, fneg(b))

fmul(a, b) ==
    IF is_nan(a) \/ is_nan(b) THEN NaN
    ELSE IF a.k = "inf" \/ b.k = "inf"
         THEN (IF a.v = 0 \/ b.v = 0 THEN NaN ELSE Inf(Sign(a.v) * Sign(b.v)))
    ELSE Norm(RoundDiv(a.v * b.v, Scale))

fdiv(a, b) ==
    IF is_nan(a) \/ is_nan(b) THEN NaN
    ELSE IF a.k = "inf" THEN (IF b.k = "inf" THEN NaN ELSE Inf(a.v * Sign(b.v)))
    ELSE IF b.k = "inf" THEN Fin(0)
    ELSE IF b.v = 0 THEN (IF a.v = 0 THEN NaN ELSE Inf(Sign(a.v)))
    ELSE Norm(RoundDiv(a.v * Scale, b.v))

\* The position of a non-NaN value in the order of f64.
Ord(a) == IF a.k = "inf" THEN a.v * (F64_MAX + 1) ELSE a.v

\* f64::max and f64::min: when one argument is NaN the other is returned.
fmax(a, b) ==
    IF is_nan(a) THEN b
    ELSE IF is_nan(b) THEN a
    ELSE IF Ord(b) > Ord(a) THEN b ELSE a

fmin(a, b) ==
    IF is_nan(a) THEN b
    ELSE IF is_nan(b) THEN a
    ELSE IF Ord(b) < Ord(a) THEN b ELSE a

\* sin on [0, pi], in units of 1/Scale: 16x(pi-x) / (5pi^2 - 4x(pi-x)).
HalfWave(x) ==
    RoundDiv(16 * x * (PI - x) * Scale, 5 * PI * PI - 4 * x * (PI - x))

SinUnits(n) ==
    LET r == n % (2 * PI)
    IN  IF r <= PI THEN HalfWave(r) ELSE -HalfWave(r - PI)

\* f64::sin and f64::cos: NaN for a NaN or infinite argument.
fsin(a) == IF is_finite(a) THEN Fin(SinUnits(a.v)) ELSE NaN
fcos(a) == IF is_finite(a) THEN Fin(SinUnits(a.v + PI \div 2)) ELSE NaN

(***************************************************************************)
(* src/rosetta.rs                                                          *)
(***************************************************************************)
Coordinate(x, y) == [x |-> x, y |-> y]

Hypotrochoid(R, r, d, n) ==
    [outer_radius |-> R, inner_radius |-> r, pen_offset |-> d, steps |-> n]

generate_point(self, theta) ==
    LET r_diff == fsub(self.outer_radius, self.inner_radius)
        ratio == fdiv(r_diff, self.inner_radius)
    IN  Coordinate(
            fadd(fmul(r_diff, fcos(theta)),
                 fmul(self.pen_offset, fcos(fmul(ratio, theta)))),
            fsub(fmul(r_diff, fsin(theta)),
                 fmul(self.pen_offset, fsin(fmul(ratio, theta)))))

\* let theta = 2.0 * PI * (j as f64) / (self.steps as f64) * REVOLUTIONS;
Theta(self, j) ==
    fmul(fdiv(fmul(fmul(FromInt(2), Fin(PI)), FromInt(j)), FromInt(self.steps)),
         FromInt(REVOLUTIONS))


\* for j in 0..=self.steps
LoopRangeExclusive(self, jj) == jj < self.steps
LoopRange(self, jj) == jj <= self.steps

\* (max + min) / 2.0
CenterOfExtent(mx, mn) == fdiv(fsub(mx, mn), FromInt(2))
Center(mx, mn) == fdiv(fadd(mx, mn), FromInt(2))

\* p.x -= offset_x; p.y -= offset_y;
RecenteredByX(p, ox, oy) == Coordinate(fsub(p.x, ox), fsub(p.y, ox))
Recentered(p, ox, oy) == Coordinate(fsub(p.x, ox), fsub(p.y, oy))

(***************************************************************************)
(* src/renderer.rs: the styles of create_svg_rosettas                      *)
(***************************************************************************)
RosettaStyle(R, r, d, col, dur) ==
    [outer_radius |-> R, inner_radius |-> r, distance |-> d,
     color |-> col, duration |-> dur]

\* 150.0, 52.5, 97.5 / 160.0, 110.0, 85.0 / 120.0, 33.0, 66.0
styles ==
    << RosettaStyle(Fin(15000), Fin(5250), Fin(9750), "cyan", "6s"),
       RosettaStyle(Fin(16000), Fin(11000), Fin(8500), "gold", "14s"),
       RosettaStyle(Fin(12000), Fin(3300), Fin(6600), "orange", "4s") >>

(***************************************************************************)
(* The inputs of the model.                                                *)
(***************************************************************************)
Callers == {1, 2}
PenOffsets == {-2, 1}

\* Whole radii from 0 (and so every kind of invalid spec), and the three
\* curves of the renderer, each at every step count up to MaxSteps.
Specs ==
    {Hypotrochoid(FromInt(R), FromInt(r), FromInt(d), n) :
        R \in 1..MaxRadius, r \in 0..MaxRadius, d \in PenOffsets, n \in 0..MaxSteps}
    \cup
    {Hypotrochoid(styles[s].outer_radius, styles[s].inner_radius,
                  styles[s].distance, n) : s \in 1..Len(styles), n \in 0..MaxSteps}

\* The specs two concurrent callers draw from.
ConcSpecs ==
    {Hypotrochoid(FromInt(3), FromInt(r), FromInt(1), n) :
        r \in 0..2, n \in 0..ConcSteps}

NoSpec == Hypotrochoid(Fin(0), Fin(0), Fin(0), 0)
Zero == Fin(0)

\* let (mut max_x, mut min_x) = (f64::MIN, f64::MAX); and the same for y
MaxStartZero == Zero
MaxStart == F64_MIN_V
MinStart == F64_MAX_V

(***************************************************************************)
(* State                                                                   *)
(***************************************************************************)
VARIABLES
    pc,         \* per caller: "idle", "loop", "recenter", "done"
    self,       \* per caller: the Hypotrochoid compute_points is called on
    j,          \* per caller: the index of the generating loop
    points,     \* per caller: the Vec<Coordinate> being built
    max_x,      \* per caller: the bounding box accumulators
    min_x,
    max_y,
    min_y,
    offset_x,   \* per caller: the center offset
    offset_y,
    i,          \* per caller: the position of the recentering loop
    ret         \* per caller: the returned Vec<Coordinate>

gen_vars ==
    <<pc, self, j, points, max_x, min_x, max_y, min_y, offset_x, offset_y, i, ret>>

GenInit ==
    /\ pc = [c \in Callers |-> "idle"]
    /\ self = [c \in Callers |-> NoSpec]
    /\ j = [c \in Callers |-> 0]
    /\ points = [c \in Callers |-> << >>]
    /\ max_x = [c \in Callers |-> MaxStart]
    /\ min_x = [c \in Callers |-> MinStart]
    /\ max_y = [c \in Callers |-> MaxStart]
    /\ min_y = [c \in Callers |-> MinStart]
    /\ offset_x = [c \in Callers |-> Zero]
    /\ offset_y = [c \in Callers |-> Zero]
    /\ i = [c \in Callers |-> 1]
    /\ ret = [c \in Callers |-> << >>]

(***************************************************************************)
(* Hypotrochoid::compute_points, one action per loop iteration             *)
(***************************************************************************)
\* (as if the accumulators were statics: a call starts from what the
\* caller's previous call left in them)
CallStale(c, S) ==
    /\ pc[c] \in {"idle", "done"}
    /\ \E h \in S : self' = [self EXCEPT ![c] = h]
    /\ pc' = [pc EXCEPT ![c] = "loop"]
    /\ j' = [j EXCEPT ![c] = 0]
    /\ points' = [points EXCEPT ![c] = << >>]
    /\ offset_x' = [offset_x EXCEPT ![c] = Zero]
    /\ offset_y' = [offset_y EXCEPT ![c] = Zero]
    /\ i' = [i EXCEPT ![c] = 1]
    /\ ret' = [ret EXCEPT ![c] = << >>]
    /\ UNCHANGED <<max_x, min_x, max_y, min_y>>

\* Entry: the locals are created (points empty, the accumulators at
\* f64::MIN and f64::MAX).
Call(c, S) ==
    /\ pc[c] \in {"idle", "done"}
    /\ \E h \in S : self' = [self EXCEPT ![c] = h]
    /\ pc' = [pc EXCEPT ![c] = "loop"]
    /\ j' = [j EXCEPT ![c] = 0]
    /\ points' = [points EXCEPT ![c] = << >>]
    /\ max_x' = [max_x EXCEPT ![c] = MaxStart]
    /\ min_x' = [min_x EXCEPT ![c] = MinStart]
    /\ max_y' = [max_y EXCEPT ![c] = MaxStart]
    /\ min_y' = [min_y EXCEPT ![c] = MinStart]
    /\ offset_x' = [offset_x EXCEPT ![c] = Zero]
    /\ offset_y' = [offset_y EXCEPT ![c] = Zero]
    /\ i' = [i EXCEPT ![c] = 1]
    /\ ret' = [ret EXCEPT ![c] = << >>]

\* (as if the accumulators were shared by every call in progress)
LoopStepShared(c) ==
    /\ pc[c] = "loop"
    /\ LoopRange(self[c], j[c])
    /\ LET theta == Theta(self[c], j[c])
           p == generate_point(self[c], theta)
       IN  /\ points' = [points EXCEPT ![c] = Append(@, p)]
           /\ max_x' = [d \in Callers |-> fmax(max_x[d], p.x)]
           /\ min_x' = [d \in Callers |-> fmin(min_x[d], p.x)]
           /\ max_y' = [d \in Callers |-> fmax(max_y[d], p.y)]
           /\ min_y' = [d \in Callers |-> fmin(min_y[d], p.y)]
    /\ j' = [j EXCEPT ![c] = @ + 1]
    /\ UNCHANGED <<pc, self, offset_x, offset_y, i, ret>>

\* One iteration of the generating loop: the point is pushed and the
\* bounding box is extended.
LoopStep(c) ==
    /\ pc[c] = "loop"
    /\ LoopRange(self[c], j[c])
    /\ LET theta == Theta(self[c], j[c])
           p == generate_point(self[c], theta)
       IN  /\ points' = [points EXCEPT ![c] = Append(@, p)]
           /\ max_x' = [max_x EXCEPT ![c] = fmax(@, p.x)]
           /\ min_x' = [min_x EXCEPT ![c] = fmin(@, p.x)]
           /\ max_y' = [max_y EXCEPT ![c] = fmax(@, p.y)]
           /\ min_y' = [min_y EXCEPT ![c] = fmin(@, p.y)]
    /\ j' = [j EXCEPT ![c] = @ + 1]
    /\ UNCHANGED <<pc, self, offset_x, offset_y, i, ret>>

\* The loop is over: the center offset is computed from the bounding box.
LoopExit(c) ==
    /\ pc[c] = "loop"
    /\ ~LoopRange(self[c], j[c])
    /\ offset_x' = [offset_x EXCEPT ![c] = Center(max_x[c], min_x[c])]
    /\ offset_y' = [offset_y EXCEPT ![c] = Center(max_y[c], min_y[c])]
    /\ pc' = [pc EXCEPT ![c] = "recenter"]
    /\ UNCHANGED <<self, j, points, max_x, min_x, max_y, min_y, i, ret>>

\* One iteration of the recentering loop.
RecenterStep(c) ==
    /\ pc[c] = "recenter"
    /\ i[c] <= Len(points[c])
    /\ points' = [points EXCEPT
                    ![c][i[c]] = Recentered(@, offset_x[c], offset_y[c])]
    /\ i' = [i EXCEPT ![c] = @ + 1]
    /\ UNCHANGED <<pc, self, j, max_x, min_x, max_y, min_y, offset_x, offset_y, ret>>

\* The vector is returned.
Return(c) ==
    /\ pc[c] = "recenter"
    /\ i[c] > Len(points[c])
    /\ ret' = [ret EXCEPT ![c] = points[c]]
    /\ pc' = [pc EXCEPT ![c] = "done"]
    /\ UNCHANGED <<self, j, points, max_x, min_x, max_y, min_y, offset_x, offset_y, i>>


(***************************************************************************)
(* src/renderer.rs and src/main.rs                                         *)
(***************************************************************************)
VARIABLES
    rpc,        \* where the renderer is
    rn,         \* the write of the current function that comes next
    ridx,       \* the position of `for style in &styles`
    rpoints,    \* the slice write_path was given
    rk,         \* write_path: how many points were written
    rcaller,    \* who called write_path: "write_rosetta" or "harness"
    rresult,    \* the io::Result: "none" while running, "Ok", "Err"
    out,        \* what the writer accepted, one entry per write
    stderr      \* whether main printed the error

render_vars == <<rpc, rn, ridx, rpoints, rk, rcaller, rresult, out, stderr>>

vars == <<gen_vars, render_vars>>

\* `{}` of an f64: "NaN", "inf", "-inf", or a sign, the whole part and the
\* fraction.
Display(a) ==
    IF is_nan(a) THEN [txt |-> "NaN", int |-> 0, frac |-> 0]
    ELSE IF a.k = "inf"
         THEN [txt |-> IF a.v < 0 THEN "-inf" ELSE "inf", int |-> 0, frac |-> 0]
    ELSE [txt |-> IF a.v < 0 THEN "-" ELSE "",
          int |-> Abs(a.v) \div Scale, frac |-> Abs(a.v) % Scale]

NoNum == [txt |-> "", int |-> 0, frac |-> 0]

\* One write: its kind, the text it interpolates and the numbers it prints.
Tok(t, s, n) == [t |-> t, s |-> s, n |-> n, x |-> NoNum, y |-> NoNum]
PathTok(t, p) == [t |-> t, s |-> "", n |-> 0, x |-> Display(p.x), y |-> Display(p.y)]

GRID_LINES == 6
ROSETTA_OPEN == 3
ROSETTA_LINES == 7

\* The writes of write_rosetta, by position: 1..3 before the path, 4..7 after.
RosettaTok(style, n) ==
    CASE n = 1 -> Tok("g_rosettas", "", 0)
      [] n = 2 -> Tok("g_rotate", "", 0)
      [] n = 3 -> Tok("path_open", style.color, 0)
      [] n = 4 -> Tok("path_close", "", 0)
      [] n = 5 -> Tok("animateTransform", style.duration, 0)
      [] OTHER -> Tok("g_close", "", n)

\* The Hypotrochoid write_rosetta builds from a style.
Curve(style) ==
    Hypotrochoid(style.outer_radius, style.inner_radius, style.distance, RenderSteps)

RenderInit ==
    /\ rpc = "create"
    /\ rn = 1
    /\ ridx = 1
    /\ rpoints = << >>
    /\ rk = 0
    /\ rcaller = "write_rosetta"
    /\ rresult = "none"
    /\ out = << >>
    /\ stderr = FALSE

\* A write the writer accepts.
Accept(tok) == out' = Append(out, tok)

\* (as if the error of a failed write were recorded and the function went on)
FailKeepsGoing ==
    /\ out' = out
    /\ rresult' = "Err"
    /\ UNCHANGED <<rpc, rn, ridx, rpoints, rk, rcaller, stderr>>

\* `?` on a failed write: the error is returned through every caller.
Fail ==
    /\ out' = out
    /\ rresult' = "Err"
    /\ rpc' = "returned"
    /\ UNCHANGED <<rn, ridx, rpoints, rk, rcaller, stderr>>

\* let file = File::create("rosettas.svg")?;
CreateFile ==
    /\ rpc = "create"
    /\ \/ /\ rpc' = "header"
          /\ UNCHANGED <<rn, ridx, rpoints, rk, rcaller, rresult, out, stderr>>
       \/ Fail
    /\ UNCHANGED gen_vars

\* write_header(&mut writer)?;
WriteHeader ==
    /\ rpc = "header"
    /\ \/ /\ Accept(Tok("header", "", 0))
          /\ rpc' = "grid"
          /\ rn' = 1
          /\ UNCHANGED <<ridx, rpoints, rk, rcaller, rresult, stderr>>
       \/ Fail
    /\ UNCHANGED gen_vars

\* write_grid(&mut writer)?; one step per writeln!
WriteGrid ==
    /\ rpc = "grid"
    /\ \/ /\ Accept(Tok("grid", "", rn))
          /\ IF rn < GRID_LINES
             THEN rn' = rn + 1 /\ rpc' = rpc /\ ridx' = ridx
             ELSE rn' = 1 /\ rpc' = "styles" /\ ridx' = 1
          /\ UNCHANGED <<rpoints, rk, rcaller, rresult, stderr>>
       \/ Fail
    /\ UNCHANGED gen_vars

\* for style in &styles { write_rosetta(&mut writer, style)?; }
NextStyle ==
    /\ rpc = "styles"
    /\ IF ridx <= Len(styles)
       THEN rpc' = "rosetta" /\ rn' = 1
       ELSE rpc' = "footer" /\ rn' = rn
    /\ UNCHANGED <<ridx, rpoints, rk, rcaller, rresult, out, stderr>>
    /\ UNCHANGED gen_vars

\* write_rosetta: the three writes before the points are computed.
WriteRosettaOpen ==
    /\ rpc = "rosetta"
    /\ rn <= ROSETTA_OPEN
    /\ \/ /\ Accept(RosettaTok(styles[ridx], rn))
          /\ rn' = rn + 1
          /\ rpc' = IF rn < ROSETTA_OPEN THEN rpc ELSE "compute"
          /\ UNCHANGED <<ridx, rpoints, rk, rcaller, rresult, stderr>>
       \/ Fail
    /\ UNCHANGED gen_vars

\* let points = curve.compute_points(); the call
ComputeCall ==
    /\ rpc = "compute"
    /\ Call(1, {Curve(styles[ridx])})
    /\ rpc' = "computing"
    /\ UNCHANGED <<rn, ridx, rpoints, rk, rcaller, rresult, out, stderr>>

\* ... and its return: write_path(writer, &points)
ComputeReturn ==
    /\ rpc = "computing"
    /\ pc[1] = "done"
    /\ rpoints' = ret[1]
    /\ rk' = 0
    /\ rcaller' = "write_rosetta"
    /\ rpc' = "path"
    /\ UNCHANGED <<rn, ridx, rresult, out, stderr>>
    /\ UNCHANGED gen_vars

\* write_path returns Ok(()) to its caller.
PathReturns ==
    IF rcaller = "write_rosetta"
    THEN rpc' = "rosetta" /\ rresult' = rresult
    ELSE rpc' = "path_returned" /\ rresult' = "Ok"

\* if let Some(first_point) = points.first() {
\*     write!(writer, r#"" M {},{}"#, first_point.x, first_point.y)?;
\* on an empty slice nothing is written and Ok(()) is returned.
WritePathFirst ==
    /\ rpc = "path"
    /\ rk = 0
    /\ IF Len(rpoints) = 0
       THEN /\ PathReturns
            /\ UNCHANGED <<rn, ridx, rpoints, rk, rcaller, out, stderr>>
       ELSE \/ /\ Accept(PathTok("M", rpoints[1]))
               /\ rk' = 1
               /\ UNCHANGED <<rpc, rn, ridx, rpoints, rcaller, rresult, stderr>>
            \/ Fail
    /\ UNCHANGED gen_vars

\* (as if the loop did not skip the first point)
WritePathLineNoSkip ==
    /\ rpc = "path"
    /\ rk >= 1
    /\ rk < Len(rpoints)
    /\ \/ /\ Accept(PathTok("L", rpoints[rk]))
          /\ rk' = rk + 1
          /\ UNCHANGED <<rpc, rn, ridx, rpoints, rcaller, rresult, stderr>>
       \/ Fail
    /\ UNCHANGED gen_vars

\* for point in points.iter().skip(1) { write!(writer, " L {},{}", ..)?; }
WritePathLine ==
    /\ rpc = "path"
    /\ rk >= 1
    /\ rk < Len(rpoints)
    /\ \/ /\ Accept(PathTok("L", rpoints[rk + 1]))
          /\ rk' = rk + 1
          /\ UNCHANGED <<rpc, rn, ridx, rpoints, rcaller, rresult, stderr>>
       \/ Fail
    /\ UNCHANGED gen_vars

\* write!(writer, r#"""#)? and Ok(())
WritePathClose ==
    /\ rpc = "path"
    /\ rk >= 1
    /\ rk = Len(rpoints)
    /\ \/ /\ Accept(Tok("quote", "", 0))
          /\ PathReturns
          /\ UNCHANGED <<rn, ridx, rpoints, rk, rcaller, stderr>>
       \/ Fail
    /\ UNCHANGED gen_vars

\* write_rosetta: the four writes after the path, then the next style.
WriteRosettaClose ==
    /\ rpc = "rosetta"
    /\ rn > ROSETTA_OPEN
    /\ \/ /\ Accept(RosettaTok(styles[ridx], rn))
          /\ IF rn < ROSETTA_LINES
             THEN rn' = rn + 1 /\ rpc' = rpc /\ ridx' = ridx
             ELSE rn' = 1 /\ rpc' = "styles" /\ ridx' = ridx + 1
          /\ UNCHANGED <<rpoints, rk, rcaller, rresult, stderr>>
       \/ Fail
    /\ UNCHANGED gen_vars

\* write_footer(&mut writer)?; Ok(())
WriteFooter ==
    /\ rpc = "footer"
    /\ \/ /\ Accept(Tok("footer", "", 0))
          /\ rresult' = "Ok"
          /\ rpc' = "returned"
          /\ UNCHANGED <<rn, ridx, rpoints, rk, rcaller, stderr>>
       \/ Fail
    /\ UNCHANGED gen_vars

\* main: if let Err(e) = renderer::create_svg_rosettas() { eprintln!(..) }
Main ==
    /\ rpc = "returned"
    /\ rpc' = "exited"
    /\ stderr' = (rresult = "Err")
    /\ UNCHANGED <<rn, ridx, rpoints, rk, rcaller, rresult, out>>
    /\ UNCHANGED gen_vars

(***************************************************************************)
(* Specifications                                                          *)
(***************************************************************************)
\* One caller of compute_points, called again and again on any spec.
Init == GenInit /\ RenderInit

CallAny == Call(1, Specs) /\ UNCHANGED render_vars
Loop1 == LoopStep(1) /\ UNCHANGED render_vars
LoopEnd1 == LoopExit(1) /\ UNCHANGED render_vars
Recenter1 == RecenterStep(1) /\ UNCHANGED render_vars
Return1 == Return(1) /\ UNCHANGED render_vars

Next == CallAny \/ Loop1 \/ LoopEnd1 \/ Recenter1 \/ Return1

Spec == Init /\ [][Next]_vars

\* Two callers of compute_points, their iterations interleaved at will.
CallConc(c) == Call(c, ConcSpecs) /\ UNCHANGED render_vars
LoopConc(c) == LoopStep(c) /\ UNCHANGED render_vars
LoopEndConc(c) == LoopExit(c) /\ UNCHANGED render_vars
RecenterConc(c) == RecenterStep(c) /\ UNCHANGED render_vars
ReturnConc(c) == Return(c) /\ UNCHANGED render_vars

NextConc ==
    \E c \in Callers :
        CallConc(c) \/ LoopConc(c) \/ LoopEndConc(c) \/ RecenterConc(c) \/ ReturnConc(c)

SpecConc == Init /\ [][NextConc]_vars

\* main: create_svg_rosettas, with compute_points run inside write_rosetta.
Computing ==
    /\ rpc = "computing"
    /\ LoopStep(1) \/ LoopExit(1) \/ RecenterStep(1) \/ Return(1)
    /\ UNCHANGED render_vars

NextRender ==
    \/ CreateFile \/ WriteHeader \/ WriteGrid \/ NextStyle
    \/ WriteRosettaOpen \/ ComputeCall \/ Computing \/ ComputeReturn
    \/ WritePathFirst \/ WritePathLine \/ WritePathClose
    \/ WriteRosettaClose \/ WriteFooter \/ Main

SpecRender == Init /\ [][NextRender]_vars

\* write_path alone, on any slice of up to MaxLen coordinates.
PathCoords ==
    { Coordinate(Fin(0), Fin(0)), Coordinate(Fin(150), Fin(-25)),
      Coordinate(NaN, NaN) }

Slices == UNION {[1..n -> PathCoords] : n \in 0..MaxLen}

InitPath ==
    /\ GenInit
    /\ rpc = "path"
    /\ rn = 1
    /\ ridx = 1
    /\ rpoints \in Slices
    /\ rk = 0
    /\ rcaller = "harness"
    /\ rresult = "none"
    /\ out = << >>
    /\ stderr = FALSE

NextPath == WritePathFirst \/ WritePathLine \/ WritePathClose

SpecPath == InitPath /\ [][NextPath]_vars


(***************************************************************************)
(* What the claims are stated with                                         *)
(***************************************************************************)
\* The points of the generating loop, before recentering, by position.
RawPoints(h) == [n \in 1..(h.steps + 1) |-> generate_point(h, Theta(h, n - 1))]

XsOf(seq) == {seq[n].x : n \in DOMAIN seq}
YsOf(seq) == {seq[n].y : n \in DOMAIN seq}
Numbers(S) == {a \in S : ~is_nan(a)}
Greatest(S) == CHOOSE m \in S : \A a \in S : Ord(a) <= Ord(m)
Least(S) == CHOOSE m \in S : \A a \in S : Ord(m) <= Ord(a)

\* The bounds a scan of a whole sequence finds: the scan starts at f64::MIN
\* and f64::MAX and a NaN is never taken.
ScanMax(S) == IF Numbers(S) = {} THEN F64_MIN_V ELSE Greatest(Numbers(S))
ScanMin(S) == IF Numbers(S) = {} THEN F64_MAX_V ELSE Least(Numbers(S))

\* inner_radius > 0, outer_radius > inner_radius, steps >= 1
ValidRadii(h) ==
    /\ is_finite(h.inner_radius) /\ is_finite(h.outer_radius)
    /\ h.inner_radius.v > 0
    /\ h.outer_radius.v > h.inner_radius.v
ValidSpec(h) == ValidRadii(h) /\ h.steps >= 1

Returned(c) == pc[c] = "done"
Origin == Coordinate(Zero, Zero)

\* A call that shows the general case: several points, not all the same,
\* and a bounding box that is not centered before recentering.
Telling(c) ==
    /\ Returned(c)
    /\ ValidSpec(self[c])
    /\ self[c].steps >= 3
    /\ Cardinality({ret[c][n] : n \in DOMAIN ret[c]}) >= 3
    /\ offset_x[c] # Zero
    /\ offset_y[c] # Zero

(***************************************************************************)
(* C1: for steps = N, compute_points returns exactly N + 1 points, and the *)
(* point at index j is the one generated for loop index j, j = 0..N: the   *)
(* loop has pushed the points of indices 0..j-1 in this order when it is   *)
(* at index j, and the returned vector holds the N + 1 of them, each       *)
(* recentered, in the same order.                                          *)
(***************************************************************************)
C1_Cardinality ==
    \A c \in Callers :
        LET raw == RawPoints(self[c]) IN
        /\ pc[c] = "loop" =>
              /\ Len(points[c]) = j[c]
              /\ j[c] <= self[c].steps + 1
              /\ \A n \in 1..j[c] : points[c][n] = raw[n]
        /\ pc[c] = "recenter" =>
              /\ Len(points[c]) = self[c].steps + 1
              /\ \A n \in i[c]..Len(points[c]) : points[c][n] = raw[n]
        /\ Returned(c) =>
              /\ Len(ret[c]) = self[c].steps + 1
              /\ \A n \in 1..(self[c].steps + 1) :
                    ret[c][n] = Recentered(raw[n], offset_x[c], offset_y[c])

C1_Witness == Telling(1) /\ Len(ret[1]) = self[1].steps + 1

(***************************************************************************)
(* C2: for a valid spec, the bounding box of the returned points is        *)
(* centered at the origin: max(x) + min(x) and max(y) + min(y) are zero    *)
(* within the rounding of one division (one unit of the grid), and every   *)
(* coordinate is finite.                                                   *)
(***************************************************************************)
BoxCentered(S) ==
    /\ \A a \in S : is_finite(a)
    /\ Abs(Greatest(S).v + Least(S).v) <= 1

C2_RecenteringInvariant ==
    \A c \in Callers :
        (Returned(c) /\ ValidSpec(self[c])) =>
            /\ BoxCentered(XsOf(ret[c]))
            /\ BoxCentered(YsOf(ret[c]))

C2_Witness == Telling(1) /\ BoxCentered(XsOf(ret[1])) /\ BoxCentered(YsOf(ret[1]))

(***************************************************************************)
(* C3 (as claimed): a call with inner_radius <= 0 or with                  *)
(* outer_radius <= inner_radius fails with InvalidParameter: it returns no *)
(* point sequence, and no coordinate that is not finite is ever produced.  *)
(***************************************************************************)
C3_InvalidRejected ==
    \A c \in Callers :
        (pc[c] # "idle" /\ ~ValidRadii(self[c])) =>
            /\ ~Returned(c)
            /\ \A n \in DOMAIN points[c] :
                  is_finite(points[c][n].x) /\ is_finite(points[c][n].y)

(***************************************************************************)
(* C4 (as claimed): with steps = 0, compute_points returns exactly one     *)
(* point, and that point is (0, 0).  Stated of the specs whose radii are   *)
(* valid, where nothing but steps = 0 is at play.                          *)
(***************************************************************************)
C4_DegenerateIsOrigin ==
    \A c \in Callers :
        (Returned(c) /\ ValidRadii(self[c]) /\ self[c].steps = 0) =>
            ret[c] = <<Origin>>

(***************************************************************************)
(* C8: recentering is one translation: the offset is half the sum of the   *)
(* two accumulators of each axis, which bound every raw point; every       *)
(* returned point is the raw point of the same index minus that one        *)
(* offset; so the difference between any two points is the same before and *)
(* after.                                                                  *)
(***************************************************************************)
C8_UniformTranslation ==
    \A c \in Callers :
        Returned(c) =>
            LET raw == RawPoints(self[c]) IN
            /\ offset_x[c] = fdiv(fadd(max_x[c], min_x[c]), FromInt(2))
            /\ offset_y[c] = fdiv(fadd(max_y[c], min_y[c]), FromInt(2))
            /\ \A a \in Numbers(XsOf(raw)) :
                  Ord(min_x[c]) <= Ord(a) /\ Ord(a) <= Ord(max_x[c])
            /\ \A a \in Numbers(YsOf(raw)) :
                  Ord(min_y[c]) <= Ord(a) /\ Ord(a) <= Ord(max_y[c])
            /\ DOMAIN ret[c] = DOMAIN raw
            /\ \A n \in DOMAIN raw :
                  /\ ret[c][n].x = fsub(raw[n].x, offset_x[c])
                  /\ ret[c][n].y = fsub(raw[n].y, offset_y[c])
            /\ \A m, n \in DOMAIN raw :
                  /\ fsub(ret[c][m].x, ret[c][n].x) = fsub(raw[m].x, raw[n].x)
                  /\ fsub(ret[c][m].y, ret[c][n].y) = fsub(raw[m].y, raw[n].y)

C8_Witness == Telling(1) /\ offset_x[1] # offset_y[1] /\ ret[1] # RawPoints(self[1])

(***************************************************************************)
(* C9: at the end of the generating loop the running accumulators are the  *)
(* greatest and the least coordinate of the raw points (of those that are  *)
(* numbers), and compute_points returns what the two-pass version returns: *)
(* generate every point, scan them for the bounds, recenter.               *)
(***************************************************************************)
TwoPass(h) ==
    LET raw == RawPoints(h)
        ox == fdiv(fadd(ScanMax(XsOf(raw)), ScanMin(XsOf(raw))), FromInt(2))
        oy == fdiv(fadd(ScanMax(YsOf(raw)), ScanMin(YsOf(raw))), FromInt(2))
    IN  [n \in DOMAIN raw |-> Coordinate(fsub(raw[n].x, ox), fsub(raw[n].y, oy))]

C9_TwoPassEquivalence ==
    \A c \in Callers :
        LET raw == RawPoints(self[c]) IN
        /\ pc[c] \in {"recenter", "done"} =>
              /\ Numbers(XsOf(raw)) # {} =>
                    /\ max_x[c] = Greatest(Numbers(XsOf(raw)))
                    /\ min_x[c] = Least(Numbers(XsOf(raw)))
              /\ Numbers(YsOf(raw)) # {} =>
                    /\ max_y[c] = Greatest(Numbers(YsOf(raw)))
                    /\ min_y[c] = Least(Numbers(YsOf(raw)))
        /\ Returned(c) => ret[c] = TwoPass(self[c])

C9_Witness ==
    /\ Telling(1)
    /\ min_x[1] # RawPoints(self[1])[1].x
    /\ max_y[1] # RawPoints(self[1])[1].y
    /\ min_y[1] # RawPoints(self[1])[Len(ret[1])].y
    /\ ret[1] = TwoPass(self[1])


(***************************************************************************)
(* C6: two calls of compute_points on equal specs return equal sequences,  *)
(* whatever each caller computed before and however the two calls were     *)
(* interleaved: the result depends on the four fields of the spec alone.   *)
(***************************************************************************)
C6_Determinism ==
    \A c, d \in Callers :
        (Returned(c) /\ Returned(d) /\ self[c] = self[d]) => ret[c] = ret[d]

C6_Witness ==
    /\ Returned(1) /\ Returned(2)
    /\ self[1] = self[2]
    /\ self[1].steps >= 3
    /\ ValidRadii(self[1])
    /\ Cardinality({ret[1][n] : n \in DOMAIN ret[1]}) >= 2
    /\ ret[1] = ret[2]

(***************************************************************************)
(* C7: under every interleaving of two calls, each call returns what it    *)
(* returns when it runs alone; a step of one call changes no local of the  *)
(* other (accumulators, offsets, vector, result); and the spec of a call   *)
(* changes only when the call is made.                                     *)
(***************************************************************************)
\* compute_points run from entry to return with nothing else running.
RECURSIVE Generate(_, _, _)
Generate(h, jj, st) ==
    IF LoopRange(h, jj)
    THEN LET p == generate_point(h, Theta(h, jj))
         IN  Generate(h, jj + 1,
                 [points |-> Append(st.points, p),
                  max_x |-> fmax(st.max_x, p.x), min_x |-> fmin(st.min_x, p.x),
                  max_y |-> fmax(st.max_y, p.y), min_y |-> fmin(st.min_y, p.y)])
    ELSE st

RunAlone(h) ==
    LET st == Generate(h, 0,
                  [points |-> << >>, max_x |-> MaxStart, min_x |-> MinStart,
                   max_y |-> MaxStart, min_y |-> MinStart])
        ox == Center(st.max_x, st.min_x)
        oy == Center(st.max_y, st.min_y)
    IN  [n \in DOMAIN st.points |-> Recentered(st.points[n], ox, oy)]

Locals(c) ==
    <<pc[c], j[c], points[c], max_x[c], min_x[c], max_y[c], min_y[c],
      offset_x[c], offset_y[c], i[c], ret[c]>>

AloneResult == \A c \in Callers : Returned(c) => ret[c] = RunAlone(self[c])

NoInterference ==
    \A c, d \in Callers :
        /\ (c # d /\ Locals(c)' # Locals(c)) =>
              (Locals(d)' = Locals(d) /\ self[d]' = self[d])
        /\ self[c]' # self[c] => (pc[c] \in {"idle", "done"} /\ pc[c]' = "loop")

C7_ConcurrentIndependence == []AloneResult /\ [][NoInterference]_vars

C7_Witness ==
    /\ Returned(1)
    /\ pc[2] = "recenter"
    /\ self[1] # self[2]
    /\ self[1].steps >= 3 /\ self[2].steps >= 3
    /\ ValidRadii(self[1]) /\ ValidRadii(self[2])
    /\ max_x[1] # max_x[2]
    /\ ret[1] = RunAlone(self[1])


(***************************************************************************)
(* C5: for a slice of n >= 1 points, write_path emits one move-to carrying *)
(* point 0 and then n - 1 line-to commands carrying points 1..n-1 in       *)
(* order, nothing dropped, duplicated or reordered: what was emitted is at *)
(* every moment the beginning of that command sequence, and all of it,     *)
(* followed by the closing quote, once write_path has returned Ok.  For    *)
(* n = 1 that is the move-to alone.                                        *)
(***************************************************************************)
IsCommand(t) == t.t \in {"M", "L"}
Commands(o) == SelectSeq(o, IsCommand)

ExpectedPath(pts) ==
    [n \in 1..Len(pts) |-> PathTok(IF n = 1 THEN "M" ELSE "L", pts[n])]

IsPrefix(a, b) == Len(a) <= Len(b) /\ \A n \in 1..Len(a) : a[n] = b[n]

PathDone == rpc = "path_returned" /\ rresult = "Ok"

C5_PathSerialization ==
    LET cmds == Commands(out)
        exp == ExpectedPath(rpoints)
    IN  /\ IsPrefix(cmds, exp)
        /\ Len(cmds) = rk
        /\ (PathDone /\ Len(rpoints) >= 1) =>
              /\ out = exp \o <<Tok("quote", "", 0)>>
              /\ Cardinality({n \in 1..Len(out) : out[n].t = "M"}) = 1
              /\ out[1] = PathTok("M", rpoints[1])
              /\ Cardinality({n \in 1..Len(out) : out[n].t = "L"}) = Len(rpoints) - 1
        /\ (PathDone /\ Len(rpoints) = 1) => out = <<PathTok("M", rpoints[1]), Tok("quote", "", 0)>>

C5_Witness ==
    /\ PathDone
    /\ Len(rpoints) >= 3
    /\ rpoints[1] # rpoints[2] /\ rpoints[2] # rpoints[3] /\ rpoints[1] # rpoints[3]
    /\ Len(Commands(out)) = Len(rpoints)

(***************************************************************************)
(* C10: create_svg_rosettas writes the header, the grid, one rosetta block *)
(* per style in the order of the styles array, then the footer: what the   *)
(* writer accepted is at every moment the beginning of that document, and  *)
(* the whole of it exactly when Ok is returned.  When the file creation or *)
(* a write fails the error is returned at once and nothing is written      *)
(* afterwards; main reports it.                                            *)
(***************************************************************************)
Block(style) ==
    <<RosettaTok(style, 1), RosettaTok(style, 2), RosettaTok(style, 3)>>
    \o ExpectedPath(RunAlone(Curve(style)))
    \o <<Tok("quote", "", 0)>>
    \o <<RosettaTok(style, 4), RosettaTok(style, 5), RosettaTok(style, 6),
         RosettaTok(style, 7)>>

RECURSIVE Blocks(_)
Blocks(n) == IF n > Len(styles) THEN << >> ELSE Block(styles[n]) \o Blocks(n + 1)

ExpectedDoc ==
    <<Tok("header", "", 0)>>
    \o [n \in 1..GRID_LINES |-> Tok("grid", "", n)]
    \o Blocks(1)
    \o <<Tok("footer", "", 0)>>

FooterWritten == \E n \in 1..Len(out) : out[n].t = "footer"

EmissionOrder ==
    /\ IsPrefix(out, ExpectedDoc)
    /\ FooterWritten <=> out = ExpectedDoc
    /\ rresult = "Ok" <=> FooterWritten
    /\ rresult = "Err" => (rpc \in {"returned", "exited"} /\ ~FooterWritten)
    /\ rpc = "exited" => (stderr <=> rresult = "Err")

AbortOnFailure == rresult = "Err" => (out' = out /\ rresult' = "Err")

====
